---- MODULE Spec2Model ----
(***************************************************************************)
(* Model of the GithubIssue operator: one declared GithubIssue resource in *)
(* the resource store, the issues of one repository at the issue tracker,  *)
(* and GithubIssueReconciler.Reconcile, advanced one external call at a    *)
(* time.                                                                   *)
(***************************************************************************)
EXTENDS Integers, Sequences, FiniteSets, TLC

\* ---------------------------------------------------------------- bounds
MaxIssues  == 2     \* most issues the repository holds
MaxInv     == 2     \* most Reconcile invocations that are started
MaxChanges == 2     \* most changes made by others: edits of the declared spec
                    \* and changes at the issue tracker

\* ------------------------------------------------------------- constants
CloseIssuesFinalizer == "issues.dvir.io/finalizer"

\* Titles are sequences of characters.
Bug       == <<"B", "u", "g">>
bugLower  == <<"b", "u", "g">>
BugReport == <<"B", "u", "g", " ", "r", "e", "p", "o", "r", "t">>
Other     == <<"I", "s", "s", "u", "e", " ", "2">>

DeclaredTitles == {Bug}
Descriptions   == {"d1", "d2"}
Repos          == {"https://github.com/o/r", "http://example.com"}
EventKinds     == {"connected", "disconnected", "cross-referenced", "other"}

NoIssue == 0

\* ------------------------------------------------------ strings.EqualFold
\* Simple case folding of one character.
FoldChar(c) ==
    CASE c = "B" -> "b"
      [] c = "I" -> "i"
      [] OTHER   -> c

EqualFold_Contains(s, t) ==
    \E k \in 0..(Len(s) - Len(t)) :
        \A i \in 1..Len(t) : FoldChar(s[k + i]) = FoldChar(t[i])

EqualFold(s, t) ==
    /\ Len(s) = Len(t)
    /\ \A i \in 1..Len(s) : FoldChar(s[i]) = FoldChar(t[i])

\* ----------------------------------------------------------- searchForIssue
\* The loop over gitHubIssues from position i on; the result is the position
\* of the issue returned, NoIssue for nil.
RECURSIVE searchFrom(_, _, _)
searchFrom(title, gitHubIssues, i) ==
    IF i > Len(gitHubIssues) THEN NoIssue
    ELSE IF EqualFold(gitHubIssues[i].title, title) THEN i
    ELSE searchFrom(title, gitHubIssues, i + 1)

searchForIssue_Nil(title, gitHubIssues) == NoIssue

searchForIssue(title, gitHubIssues) == searchFrom(title, gitHubIssues, 1)

\* ------------------------------------------------------------- searchForPR
\* Timeline scan, newest event first.
RECURSIVE searchForPRFrom(_, _)
searchForPRFrom(tl, i) ==
    IF i < 1 THEN "False"
    ELSE IF tl[i] \in {"connected", "cross-referenced"} THEN "True"
    ELSE IF tl[i] = "disconnected" THEN "False"
    ELSE searchForPRFrom(tl, i - 1)

searchForPR(tl) == searchForPRFrom(tl, Len(tl))

\* -------------------------------------------------------------- isGitHubURL
isGitHubURL(repo) == repo = "https://github.com/o/r"

\* -------------------------------------------------------- status conditions
\* A condition set is a sequence of [type, status, ltt].
CondIndex(conds, type) ==
    IF \E i \in 1..Len(conds) : conds[i].type = type
    THEN CHOOSE i \in 1..Len(conds) :
            /\ conds[i].type = type
            /\ \A j \in 1..(i - 1) : conds[j].type # type
    ELSE 0

\* "Absent" when the set has no condition of the type.
StatusOf(conds, type) ==
    IF CondIndex(conds, type) = 0 THEN "Absent"
    ELSE conds[CondIndex(conds, type)].status

IsStatusConditionPresentAndEqual(conds, type, status) ==
    StatusOf(conds, type) = status

IsStatusConditionTrue(conds, type) ==
    IsStatusConditionPresentAndEqual(conds, type, "True")

SetStatusCondition_Append(conds, type, status, now) ==
    Append(conds, [type |-> type, status |-> status, ltt |-> now])

SetStatusCondition(conds, type, status, now) ==
    LET i == CondIndex(conds, type) IN
    IF i = 0 THEN Append(conds, [type |-> type, status |-> status, ltt |-> now])
    ELSE IF conds[i].status # status
         THEN [conds EXCEPT ![i] = [type |-> type, status |-> status, ltt |-> now]]
         ELSE conds

\* CheckIfOpen / CheckForPr: set the condition when its status is not the
\* one wanted; the result says whether anything changed.
CheckIfOpen(conds, status, now) ==
    IF ~IsStatusConditionPresentAndEqual(conds, "IssueIsOpen", status)
    THEN [conds |-> SetStatusCondition(conds, "IssueIsOpen", status, now), changed |-> TRUE]
    ELSE [conds |-> conds, changed |-> FALSE]

CheckForPr(conds, status, now) ==
    IF ~IsStatusConditionPresentAndEqual(conds, "IssueHasPR", status)
    THEN [conds |-> SetStatusCondition(conds, "IssueHasPR", status, now), changed |-> TRUE]
    ELSE [conds |-> conds, changed |-> FALSE]

\* UpdateIssueStatus up to its store write: the conditions of the in-memory
\* object afterwards, and whether a write follows.
UpdateIssueStatus_Always(conds, isOpen, hasPR, now) ==
    LET pr == CheckForPr(conds, hasPR, now)
        op == CheckIfOpen(pr.conds, isOpen, now)
    IN  [conds |-> op.conds, write |-> TRUE]

UpdateIssueStatus_NoWrite(conds, isOpen, hasPR, now) ==
    LET pr == CheckForPr(conds, hasPR, now)
        op == CheckIfOpen(pr.conds, isOpen, now)
    IN  [conds |-> op.conds, write |-> FALSE]

UpdateIssueStatus(conds, isOpen, hasPR, now) ==
    LET pr == CheckForPr(conds, hasPR, now)
        op == CheckIfOpen(pr.conds, isOpen, now)
    IN  [conds |-> op.conds, write |-> (op.changed \/ pr.changed)]

\* ------------------------------------------------------------------ state
VARIABLES
    store,        \* the declared resource as the resource store holds it
    subres,       \* whether the store serves the status subresource
    remote,       \* the issues of the repository, in the order they are listed
    pc,           \* position of the reconciler inside Reconcile
    issueObject,  \* Reconcile's in-memory copy of the declared resource
    stale,        \* the store's resource changed after issueObject was read
    allIssues,    \* the list fetched by this invocation
    gitHubIssue,  \* position in allIssues of the matched issue, or NoIssue
    tl,           \* the timeline fetched by this invocation
    calls,        \* external calls made by the current invocation, in order
    result,       \* what the invocation returned: "none", "ok" or "err"
    pre,          \* the store's resource when the invocation read it
    inv,          \* invocations started so far, also the clock of conditions
    changes,      \* spec edits and issue-tracker changes by others so far
    run           \* outcomes of the successful invocations completed since the
                  \* repository or the declared spec last changed

vars == <<store, subres, remote, pc, issueObject, stale, allIssues, gitHubIssue,
          tl, calls, result, pre, inv, changes, run>>

\* An issue of the repository; by records who made it, which the issue
\* tracker does not tell the reconciler.
Issue(n, title, body) ==
    [number |-> n, title |-> title, body |-> body, state |-> "open",
     pr |-> FALSE, tl |-> <<>>, by |-> "other"]

\* The issue that a create call of the reconciler makes.
Created(n, title, body) == [Issue(n, title, body) EXCEPT !.by = "reconciler"]

\* Issues that exist before the operator runs.
InitialTitles == {bugLower, BugReport}

InitialRemotes ==
    {<<>>}
    \cup {<<Issue(1, t, "d1")>> : t \in InitialTitles}
    \cup {<<Issue(1, t, "d1"), Issue(2, u, "d1")>> :
              t \in {bugLower, BugReport}, u \in {Bug}}

Call(op, ok, num, title, body) ==
    [op |-> op, ok |-> ok, num |-> num, title |-> title, body |-> body]

Plain(op, ok) == Call(op, ok, 0, <<>>, "")

NoObject ==
    [exists |-> FALSE, finalizer |-> FALSE, foreign |-> FALSE, deleting |-> FALSE,
     title |-> <<>>, desc |-> "", repo |-> "", conds |-> <<>>]

Init ==
    /\ \E t \in DeclaredTitles, r \in Repos, f \in BOOLEAN :
          store = [exists |-> TRUE, finalizer |-> FALSE, foreign |-> f,
                   deleting |-> FALSE, title |-> t, desc |-> "d1", repo |-> r,
                   conds |-> <<>>]
    /\ subres \in BOOLEAN
    /\ remote \in InitialRemotes
    /\ pc = "idle"
    /\ issueObject = NoObject
    /\ stale = FALSE
    /\ allIssues = <<>>
    /\ gitHubIssue = NoIssue
    /\ tl = <<>>
    /\ calls = <<>>
    /\ result = "none"
    /\ pre = NoObject
    /\ inv = 0
    /\ changes = 0
    /\ run = <<>>

InFlight == pc \notin {"idle", "done"}

\* Reconcile returns.
Return(r) ==
    /\ pc' = "done"
    /\ result' = r

DeclaredSpec(o) == <<o.title, o.desc, o.repo>>

\* What an invocation did about the status: "none" when it made no status
\* write, "written" when its write reached the store, "lost" when the
\* full-object fallback succeeded at a store that ignores the status in it.
Outcome(cs) ==
    IF \E i \in 1..Len(cs) : cs[i].op = "status" /\ cs[i].ok THEN "written"
    ELSE IF \E i \in 1..Len(cs) : cs[i].op = "statusfallback" /\ cs[i].ok
         THEN IF subres THEN "lost" ELSE "written"
    ELSE "none"

\* Bookkeeping of run, taken with every step: a change of the repository or
\* of the declared spec starts a new sequence, and so does an invocation that
\* does not return success.
Observe(reconciler) ==
    LET changed == remote' # remote \/ DeclaredSpec(store') # DeclaredSpec(store)
        base    == IF changed THEN <<>> ELSE run
    IN  run' = IF ~reconciler THEN base
               ELSE IF pc' = "done"
                    THEN IF result' = "ok" THEN Append(base, Outcome(calls'))
                         ELSE <<>>
               ELSE IF pc' = "idle" THEN <<>>
               ELSE base

\* ----------------------------------------------------------- the environment
\* A change by somebody else.  While an invocation runs its locals stay as
\* they are; between invocations what the last one left behind is dropped.
Elsewhere ==
    IF InFlight
    THEN UNCHANGED <<pc, issueObject, allIssues, gitHubIssue, tl, calls, result, pre>>
    ELSE /\ pc' = "idle"
         /\ issueObject' = NoObject
         /\ allIssues' = <<>>
         /\ gitHubIssue' = NoIssue
         /\ tl' = <<>>
         /\ calls' = <<>>
         /\ result' = "none"
         /\ pre' = NoObject

\* The user changes spec.description.
UserEditSpec ==
    /\ store.exists
    /\ changes < MaxChanges
    /\ \E d \in Descriptions \ {store.desc} : store' = [store EXCEPT !.desc = d]
    /\ changes' = changes + 1
    /\ stale' = (stale \/ InFlight)
    /\ Elsewhere
    /\ UNCHANGED <<subres, remote, inv>>
    /\ Observe(FALSE)

\* The store destroys a resource that is being deleted once its list of
\* finalizers is empty: CloseIssuesFinalizer is absent, and so is every
\* finalizer put there by somebody else.
Finalized(o) == o.deleting /\ ~o.finalizer /\ ~o.foreign

\* The user deletes the resource: the store sets the deletion timestamp, and
\* destroys the resource at once when no finalizer guards it.
UserDelete ==
    /\ store.exists
    /\ ~store.deleting
    /\ store' = LET o == [store EXCEPT !.deleting = TRUE]
                IN  [o EXCEPT !.exists = ~Finalized(o)]
    /\ stale' = (stale \/ InFlight)
    /\ Elsewhere
    /\ UNCHANGED <<subres, remote, inv, changes>>
    /\ Observe(FALSE)

\* Whoever put another finalizer on the resource removes it, once the
\* resource is being deleted.  The step is taken between invocations: the
\* update conflict it would give an invocation under way is the one that
\* UserEditSpec gives.
ForeignFinalizerRemoved ==
    /\ ~InFlight
    /\ store.exists
    /\ store.deleting
    /\ store.foreign
    /\ store' = LET o == [store EXCEPT !.foreign = FALSE]
                IN  [o EXCEPT !.exists = ~Finalized(o)]
    /\ stale' = (stale \/ InFlight)
    /\ Elsewhere
    /\ UNCHANGED <<subres, remote, inv, changes>>
    /\ Observe(FALSE)

\* Somebody else closes an issue, links a pull request, or an event is added
\* to an issue's timeline.  The reconciler sees such a change only through a
\* later fetch, so the changes are taken between invocations, and only the
\* issue the matcher selects is followed.
RemoteDrift ==
    /\ ~InFlight
    /\ changes < MaxChanges
    /\ \E i \in {searchForIssue(store.title, remote)} \ {NoIssue} :
          \/ /\ remote[i].state = "open"
             /\ remote' = [remote EXCEPT ![i].state = "closed"]
          \/ /\ ~remote[i].pr
             /\ remote' = [remote EXCEPT ![i].pr = TRUE]
          \/ \E k \in EventKinds :
                remote' = [remote EXCEPT ![i].tl = Append(@, k)]
    /\ changes' = changes + 1
    /\ Elsewhere
    /\ UNCHANGED <<store, subres, stale, inv>>
    /\ Observe(FALSE)

\* ------------------------------------------------------------- the reconciler
Log(c) == calls' = Append(calls, c)

\* Position of the issue with the given number in the repository.
ByNumber(n) == CHOOSE i \in 1..Len(remote) : remote[i].number = n

MatchedNumber == allIssues[gitHubIssue].number

\* The branch Reconcile takes once the finalizer is in place.
AfterFinalizer_AlwaysCreate(match) == "create"

AfterFinalizer(match) == IF match = NoIssue THEN "create" ELSE "edit"

\* The branch Reconcile takes after the list is fetched and matched.
AfterList_NoFinalizer(o, match) ==
    IF o.deleting
    THEN IF match = NoIssue THEN "dangling" ELSE "close"
    ELSE AfterFinalizer(match)

AfterList_IgnoreDeletion(o, match) ==
    IF ~o.finalizer THEN "addfinalizer" ELSE AfterFinalizer(match)

AfterList_SkipClose(o, match) ==
    IF o.deleting
    THEN IF match = NoIssue THEN "delfinalizer" ELSE "close"
    ELSE IF ~o.finalizer THEN "addfinalizer" ELSE AfterFinalizer(match)

AfterList(o, match) ==
    IF o.deleting
    THEN IF match = NoIssue THEN "dangling" ELSE "close"
    ELSE IF ~o.finalizer THEN "addfinalizer" ELSE AfterFinalizer(match)

\* After a successful close, DeleteFinalizer updates the object when the
\* marker is present, and otherwise Reconcile returns.
AfterClose_KeepFinalizer(o) == "return"

AfterClose_AlwaysUpdate(o) == "delfinalizer"

AfterClose(o) == IF o.finalizer THEN "delfinalizer" ELSE "return"

\* Whether a full-object Update of the store can succeed.
CanUpdate == store.exists /\ ~stale

Get_NotFoundIsError ==
    /\ pc \in {"idle", "done"}
    /\ inv < MaxInv
    /\ inv' = inv + 1
    /\ stale' = FALSE
    /\ allIssues' = <<>>
    /\ gitHubIssue' = NoIssue
    /\ tl' = <<>>
    /\ \/ /\ ~store.exists
          /\ calls' = <<Plain("get", TRUE)>>
          /\ Return("err")
          /\ issueObject' = NoObject
          /\ pre' = NoObject
       \/ /\ calls' = <<Plain("get", FALSE)>>
          /\ Return("err")
          /\ issueObject' = NoObject
          /\ pre' = NoObject
       \/ /\ store.exists
          /\ calls' = <<Plain("get", TRUE)>>
          /\ issueObject' = store
          /\ pre' = store
          /\ IF isGitHubURL(store.repo)
             THEN pc' = "list" /\ result' = "none"
             ELSE Return("err")
    /\ UNCHANGED <<store, subres, remote, changes>>
    /\ Observe(TRUE)

Get_NoURLCheck ==
    /\ pc \in {"idle", "done"}
    /\ inv < MaxInv
    /\ inv' = inv + 1
    /\ stale' = FALSE
    /\ allIssues' = <<>>
    /\ gitHubIssue' = NoIssue
    /\ tl' = <<>>
    /\ \/ /\ ~store.exists
          /\ calls' = <<Plain("get", TRUE)>>
          /\ Return("ok")
          /\ issueObject' = NoObject
          /\ pre' = NoObject
       \/ /\ calls' = <<Plain("get", FALSE)>>
          /\ Return("err")
          /\ issueObject' = NoObject
          /\ pre' = NoObject
       \/ /\ store.exists
          /\ calls' = <<Plain("get", TRUE)>>
          /\ issueObject' = store
          /\ pre' = store
          /\ pc' = "list"
          /\ result' = "none"
    /\ UNCHANGED <<store, subres, remote, changes>>
    /\ Observe(TRUE)

\* r.Get, then isGitHubURL.
Get ==
    /\ pc \in {"idle", "done"}
    /\ inv < MaxInv
    /\ inv' = inv + 1
    /\ stale' = FALSE
    /\ allIssues' = <<>>
    /\ gitHubIssue' = NoIssue
    /\ tl' = <<>>
    /\ \/ /\ ~store.exists
          /\ calls' = <<Plain("get", TRUE)>>
          /\ Return("ok")
          /\ issueObject' = NoObject
          /\ pre' = NoObject
       \/ /\ calls' = <<Plain("get", FALSE)>>
          /\ Return("err")
          /\ issueObject' = NoObject
          /\ pre' = NoObject
       \/ /\ store.exists
          /\ calls' = <<Plain("get", TRUE)>>
          /\ issueObject' = store
          /\ pre' = store
          /\ IF isGitHubURL(store.repo)
             THEN pc' = "list" /\ result' = "none"
             ELSE Return("err")
    /\ UNCHANGED <<store, subres, remote, changes>>
    /\ Observe(TRUE)

ListByRepo_EmptyOnError ==
    /\ pc = "list"
    /\ \E ok \in BOOLEAN :
          /\ Log(Plain("list", ok))
          /\ allIssues' = IF ok THEN remote ELSE <<>>
          /\ gitHubIssue' = searchForIssue(issueObject.title, allIssues')
          /\ LET next == AfterList(issueObject, gitHubIssue') IN
             IF next = "dangling" THEN Return("err")
             ELSE pc' = next /\ result' = "none"
    /\ UNCHANGED <<store, subres, remote, issueObject, stale, tl, pre, inv, changes>>
    /\ Observe(TRUE)

\* ghClient.Issues.ListByRepo, then searchForIssue and the branch on the
\* deletion timestamp.  A failed call that carries no response makes the
\* error path read response.Status of nil; the panic reaches the scheduler as
\* an error, or ends the process as in Crash.  The same holds for the error
\* paths of Create and Edit.
ListByRepo ==
    /\ pc = "list"
    /\ \/ /\ Log(Plain("list", FALSE))
          /\ Return("err")
          /\ UNCHANGED <<allIssues, gitHubIssue>>
       \/ /\ Log(Plain("list", TRUE))
          /\ allIssues' = remote
          /\ gitHubIssue' = searchForIssue(issueObject.title, remote)
          /\ LET next == AfterList(issueObject, gitHubIssue') IN
             IF next = "dangling" THEN Return("err")
             ELSE pc' = next /\ result' = "none"
    /\ UNCHANGED <<store, subres, remote, issueObject, stale, tl, pre, inv, changes>>
    /\ Observe(TRUE)

\* AddFinalizer: the marker is absent, so it is added and the object updated.
AddFinalizer ==
    /\ pc = "addfinalizer"
    /\ \/ /\ Log(Plain("addfinalizer", FALSE))
          /\ Return("err")
          /\ UNCHANGED <<store, issueObject>>
       \/ /\ CanUpdate
          /\ Log(Plain("addfinalizer", TRUE))
          /\ store' = [store EXCEPT !.finalizer = TRUE]
          /\ issueObject' = [issueObject EXCEPT !.finalizer = TRUE]
          /\ pc' = AfterFinalizer(gitHubIssue)
          /\ result' = "none"
    /\ UNCHANGED <<subres, remote, stale, allIssues, gitHubIssue, tl, pre, inv, changes>>
    /\ Observe(TRUE)

\* What follows UpdateIssueStatus's comparison: a status write, or return.
AfterStatus(u) ==
    /\ issueObject' = [issueObject EXCEPT !.conds = u.conds]
    /\ IF u.write THEN pc' = "status" /\ result' = "none"
       ELSE Return("ok")

\* ghClient.Issues.Create, then UpdateIssueStatus(True, False).
Create ==
    /\ pc = "create"
    /\ \/ /\ Log(Call("create", FALSE, 0, issueObject.title, issueObject.desc))
          /\ Return("err")
          /\ UNCHANGED <<remote, issueObject>>
       \/ /\ Len(remote) < MaxIssues
          /\ Log(Call("create", TRUE, 0, issueObject.title, issueObject.desc))
          /\ remote' = Append(remote,
                 Created(Len(remote) + 1, issueObject.title, issueObject.desc))
          /\ AfterStatus(UpdateIssueStatus(issueObject.conds, "True", "False", inv))
    /\ UNCHANGED <<store, subres, stale, allIssues, gitHubIssue, tl, pre, inv, changes>>
    /\ Observe(TRUE)

Edit_IgnoreError ==
    /\ pc = "edit"
    /\ \E ok \in BOOLEAN :
          /\ Log(Call("edit", ok, MatchedNumber, <<>>, issueObject.desc))
          /\ remote' = IF ok
                       THEN [remote EXCEPT ![ByNumber(MatchedNumber)].body = issueObject.desc]
                       ELSE remote
          /\ pc' = "timeline"
          /\ result' = "none"
    /\ UNCHANGED <<store, subres, issueObject, stale, allIssues, gitHubIssue, tl, pre,
                   inv, changes>>
    /\ Observe(TRUE)

Edit_FetchedBody ==
    /\ pc = "edit"
    /\ \/ /\ Log(Call("edit", FALSE, MatchedNumber, <<>>, allIssues[gitHubIssue].body))
          /\ Return("err")
          /\ UNCHANGED remote
       \/ /\ Log(Call("edit", TRUE, MatchedNumber, <<>>, allIssues[gitHubIssue].body))
          /\ remote' = [remote EXCEPT ![ByNumber(MatchedNumber)].body =
                                          allIssues[gitHubIssue].body]
          /\ pc' = "timeline"
          /\ result' = "none"
    /\ UNCHANGED <<store, subres, issueObject, stale, allIssues, gitHubIssue, tl, pre,
                   inv, changes>>
    /\ Observe(TRUE)

Edit_RetryOnce ==
    /\ pc = "edit"
    /\ \/ /\ Log(Call("edit", FALSE, MatchedNumber, <<>>, issueObject.desc))
          /\ IF \E i \in 1..Len(calls) : calls[i].op = "edit"
             THEN Return("err")
             ELSE pc' = "edit" /\ result' = "none"
          /\ UNCHANGED remote
       \/ /\ Log(Call("edit", TRUE, MatchedNumber, <<>>, issueObject.desc))
          /\ remote' = [remote EXCEPT ![ByNumber(MatchedNumber)].body = issueObject.desc]
          /\ pc' = "timeline"
          /\ result' = "none"
    /\ UNCHANGED <<store, subres, issueObject, stale, allIssues, gitHubIssue, tl, pre,
                   inv, changes>>
    /\ Observe(TRUE)

\* ghClient.Issues.Edit with the declared description as the body.
Edit ==
    /\ pc = "edit"
    /\ \/ /\ Log(Call("edit", FALSE, MatchedNumber, <<>>, issueObject.desc))
          /\ Return("err")
          /\ UNCHANGED remote
       \/ /\ Log(Call("edit", TRUE, MatchedNumber, <<>>, issueObject.desc))
          /\ remote' = [remote EXCEPT ![ByNumber(MatchedNumber)].body = issueObject.desc]
          /\ pc' = "timeline"
          /\ result' = "none"
    /\ UNCHANGED <<store, subres, issueObject, stale, allIssues, gitHubIssue, tl, pre,
                   inv, changes>>
    /\ Observe(TRUE)

ListIssueTimeline_SurfaceError ==
    /\ pc = "timeline"
    /\ \/ /\ Log(Call("timeline", FALSE, MatchedNumber, <<>>, ""))
          /\ Return("err")
          /\ UNCHANGED <<issueObject, tl>>
       \/ /\ Log(Call("timeline", TRUE, MatchedNumber, <<>>, ""))
          /\ tl' = remote[ByNumber(MatchedNumber)].tl
          /\ LET hasPR == searchForPR(tl') IN
             AfterStatus(UpdateIssueStatus(issueObject.conds, "True", hasPR, inv))
    /\ UNCHANGED <<store, subres, remote, stale, allIssues, gitHubIssue, pre, inv,
                   changes>>
    /\ Observe(TRUE)

\* ghClient.Issues.ListIssueTimeline, then searchForPR and
\* UpdateIssueStatus(True, hasPR).
ListIssueTimeline ==
    /\ pc = "timeline"
    /\ \/ /\ Log(Call("timeline", FALSE, MatchedNumber, <<>>, ""))
          /\ Return("ok")
          /\ UNCHANGED <<issueObject, tl>>
       \/ /\ Log(Call("timeline", TRUE, MatchedNumber, <<>>, ""))
          /\ tl' = remote[ByNumber(MatchedNumber)].tl
          /\ LET hasPR == searchForPR(tl') IN
             AfterStatus(UpdateIssueStatus(issueObject.conds, "True", hasPR, inv))
    /\ UNCHANGED <<store, subres, remote, stale, allIssues, gitHubIssue, pre, inv,
                   changes>>
    /\ Observe(TRUE)

\* r.Client.Status().Update inside UpdateIssueStatus.
StatusUpdate ==
    /\ pc = "status"
    /\ \/ /\ Log(Plain("status", FALSE))
          /\ pc' = "statusfallback"
          /\ result' = "none"
          /\ UNCHANGED store
       \/ /\ subres
          /\ CanUpdate
          /\ Log(Plain("status", TRUE))
          /\ store' = [store EXCEPT !.conds = issueObject.conds]
          /\ Return("ok")
    /\ UNCHANGED <<subres, remote, issueObject, stale, allIssues, gitHubIssue, tl, pre,
                   inv, changes>>
    /\ Observe(TRUE)

\* r.Client.Update, tried when the status update failed.  A store that serves
\* the status subresource ignores the status of a full-object update.
StatusFallback ==
    /\ pc = "statusfallback"
    /\ \/ /\ Log(Plain("statusfallback", FALSE))
          /\ Return("err")
          /\ UNCHANGED store
       \/ /\ CanUpdate
          /\ Log(Plain("statusfallback", TRUE))
          /\ store' = IF subres THEN store
                      ELSE [store EXCEPT !.conds = issueObject.conds]
          /\ Return("ok")
    /\ UNCHANGED <<subres, remote, issueObject, stale, allIssues, gitHubIssue, tl, pre,
                   inv, changes>>
    /\ Observe(TRUE)

Close_IgnoreError ==
    /\ pc = "close"
    /\ \E ok \in BOOLEAN :
          /\ Log(Call("close", ok, MatchedNumber, <<>>, ""))
          /\ remote' = IF ok
                       THEN [remote EXCEPT ![ByNumber(MatchedNumber)].state = "closed"]
                       ELSE remote
          /\ IF AfterClose(issueObject) = "delfinalizer"
             THEN pc' = "delfinalizer" /\ result' = "none"
             ELSE Return("ok")
    /\ UNCHANGED <<store, subres, issueObject, stale, allIssues, gitHubIssue, tl, pre,
                   inv, changes>>
    /\ Observe(TRUE)

\* ghClient.Issues.Edit with state "closed", on the deleting branch.
Close ==
    /\ pc = "close"
    /\ \/ /\ Log(Call("close", FALSE, MatchedNumber, <<>>, ""))
          /\ Return("err")
          /\ UNCHANGED remote
       \/ /\ Log(Call("close", TRUE, MatchedNumber, <<>>, ""))
          /\ remote' = [remote EXCEPT ![ByNumber(MatchedNumber)].state = "closed"]
          /\ IF AfterClose(issueObject) = "delfinalizer"
             THEN pc' = "delfinalizer" /\ result' = "none"
             ELSE Return("ok")
    /\ UNCHANGED <<store, subres, issueObject, stale, allIssues, gitHubIssue, tl, pre,
                   inv, changes>>
    /\ Observe(TRUE)

\* DeleteFinalizer: the marker is present, so it is removed and the object
\* updated; the store then destroys the resource when it is being deleted
\* and no other finalizer is left.
DeleteFinalizer ==
    /\ pc = "delfinalizer"
    /\ \/ /\ Log(Plain("delfinalizer", FALSE))
          /\ Return("err")
          /\ UNCHANGED <<store, issueObject>>
       \/ /\ CanUpdate
          /\ Log(Plain("delfinalizer", TRUE))
          /\ store' = LET o == [store EXCEPT !.finalizer = FALSE]
                      IN  [o EXCEPT !.exists = ~Finalized(o)]
          /\ issueObject' = [issueObject EXCEPT !.finalizer = FALSE]
          /\ Return("ok")
    /\ UNCHANGED <<subres, remote, stale, allIssues, gitHubIssue, tl, pre, inv, changes>>
    /\ Observe(TRUE)

\* The operator process dies between two external calls.
Crash ==
    /\ InFlight
    /\ pc' = "idle"
    /\ result' = "none"
    /\ issueObject' = NoObject
    /\ allIssues' = <<>>
    /\ gitHubIssue' = NoIssue
    /\ stale' = FALSE
    /\ tl' = <<>>
    /\ UNCHANGED <<store, subres, remote, calls, pre, inv, changes>>
    /\ Observe(TRUE)

Next ==
    \/ Get
    \/ ListByRepo
    \/ AddFinalizer
    \/ Create
    \/ Edit
    \/ ListIssueTimeline
    \/ StatusUpdate
    \/ StatusFallback
    \/ Close
    \/ DeleteFinalizer
    \/ Crash
    \/ UserEditSpec
    \/ UserDelete
    \/ ForeignFinalizerRemoved
    \/ RemoteDrift

Spec == Init /\ [][Next]_vars

\* ------------------------------------------------------------- scheduling
\* The scheduler invokes Reconcile again for a resource that waits for its
\* finalizer to be removed: the deletion is an event on the watched resource,
\* and an invocation that returns an error is queued again.  These
\* invocations are not counted.
Requeue ==
    /\ pc \in {"idle", "done"}
    /\ store.exists /\ store.deleting /\ store.finalizer
    /\ stale' = FALSE
    /\ allIssues' = <<>>
    /\ gitHubIssue' = NoIssue
    /\ tl' = <<>>
    /\ \/ /\ calls' = <<Plain("get", FALSE)>>
          /\ Return("err")
          /\ issueObject' = NoObject
          /\ pre' = NoObject
       \/ /\ calls' = <<Plain("get", TRUE)>>
          /\ issueObject' = store
          /\ pre' = store
          /\ IF isGitHubURL(store.repo)
             THEN pc' = "list" /\ result' = "none"
             ELSE Return("err")
    /\ UNCHANGED <<store, subres, remote, inv, changes>>
    /\ Observe(TRUE)

\* A call of an invocation that is under way.
Step ==
    \/ ListByRepo
    \/ AddFinalizer
    \/ Create
    \/ Edit
    \/ ListIssueTimeline
    \/ StatusUpdate
    \/ StatusFallback
    \/ Close
    \/ DeleteFinalizer

\* The step is a call that succeeded.
Succeeds(A) == A /\ calls'[Len(calls')].ok

\* The invocations, the process dying, the user editing and deleting the
\* resource, and the scheduler's further invocations.
FairNext ==
    \/ Get
    \/ Step
    \/ Crash
    \/ UserEditSpec
    \/ UserDelete
    \/ ForeignFinalizerRemoved
    \/ Requeue

\* Every call returns; the resource that waits for finalization is read, its
\* issues are listed, the issue is closed and the resource is updated
\* successfully in the end, however often the calls fail before.
Fairness ==
    /\ WF_vars(Step)
    /\ SF_vars(Succeeds(Requeue))
    /\ SF_vars(Succeeds(ListByRepo))
    /\ SF_vars(Succeeds(Close))
    /\ SF_vars(Succeeds(DeleteFinalizer))

FairSpec == Init /\ [][FairNext]_vars /\ Fairness

\* ------------------------------------------------------- reading the state
Count(op) == Cardinality({i \in 1..Len(calls) : calls[i].op = op})

Made(op, ok) == \E i \in 1..Len(calls) : calls[i].op = op /\ calls[i].ok = ok

\* Position in calls of the first call of the kind, 0 when there is none.
At(op) ==
    IF Count(op) = 0 THEN 0
    ELSE CHOOSE i \in 1..Len(calls) :
            /\ calls[i].op = op
            /\ \A j \in 1..(i - 1) : calls[j].op # op

AllOk == \A i \in 1..Len(calls) : calls[i].ok

Done == pc = "done"

\* The invocation read the resource and fetched the list.
Fetched == issueObject.exists /\ Made("list", TRUE)

\* Two characters that differ at most in letter case.
SameLetter(a, b) == a = b \/ {a, b} = {"B", "b"} \/ {a, b} = {"I", "i"}

SameTitle(s, t) ==
    /\ Len(s) = Len(t)
    /\ \A i \in 1..Len(s) : SameLetter(s[i], t[i])

\* Positions of the fetched issues whose title is the declared one.
Matching == {i \in 1..Len(allIssues) : SameTitle(allIssues[i].title, issueObject.title)}

FirstMatching == CHOOSE i \in Matching : \A j \in Matching : i <= j

Persisted(type) == StatusOf(store.conds, type)

\* ------------------------------------------------------------------ claims
\* C1: when the resource is not being deleted, no fetched issue has the
\* declared title and every external call of the invocation succeeds, the
\* invocation makes exactly one create call, with the declared title and
\* description, and the persisted conditions are then IssueIsOpen=True and
\* IssueHasPR=False.
C1_CreateWhenAbsent ==
    (Done /\ Fetched /\ ~issueObject.deleting /\ Matching = {} /\ AllOk)
    => /\ Count("create") = 1
       /\ calls[At("create")].title = issueObject.title
       /\ calls[At("create")].body = issueObject.desc
       /\ Persisted("IssueIsOpen") = "True"
       /\ Persisted("IssueHasPR") = "False"

C1_Witness ==
    /\ Done /\ Fetched /\ ~issueObject.deleting /\ Matching = {} /\ AllOk
    /\ Made("create", TRUE)
    /\ Made("status", TRUE)
    /\ result = "ok"

\* C2: when the resource is being deleted, a fetched issue has the declared
\* title and every external call succeeds, the invocation makes exactly one
\* close call, on the number of the matched issue, then removes the
\* finalizer that the resource carries and persists the removal.
C2_CloseThenRemoveFinalizer ==
    (Done /\ Fetched /\ issueObject.deleting /\ Matching # {} /\ AllOk)
    => /\ Count("close") = 1
       /\ calls[At("close")].num = allIssues[FirstMatching].number
       /\ pre.finalizer
          => /\ Count("delfinalizer") = 1
             /\ At("close") < At("delfinalizer")
       /\ ~issueObject.finalizer
       /\ ~(store.exists /\ store.finalizer)

C2_Witness ==
    /\ Done /\ Fetched /\ issueObject.deleting /\ Matching # {} /\ AllOk
    /\ pre.finalizer
    /\ Made("close", TRUE)
    /\ Made("delfinalizer", TRUE)
    /\ remote[FirstMatching].state = "closed"

C4_DanglingDeletion ==
    (Done /\ Fetched /\ issueObject.deleting /\ Matching = {})
    => /\ result = "err"
       /\ Count("close") = 0
       /\ Count("delfinalizer") = 0
       /\ pre.finalizer => store.exists /\ store.finalizer

C4_Witness ==
    /\ Done /\ Fetched /\ issueObject.deleting /\ Matching = {}
    /\ result = "err"
    /\ store.exists /\ store.finalizer

\* C5: when no fetched issue has the declared title and the create call
\* fails, the invocation returns an error, the persisted conditions are then
\* IssueIsOpen=False and IssueHasPR=False, and the finalizer is present.
C5_CreateFailureProjected ==
    (Done /\ Fetched /\ ~issueObject.deleting /\ Matching = {} /\ Made("create", FALSE))
    => /\ result = "err"
       /\ Persisted("IssueIsOpen") = "False"
       /\ Persisted("IssueHasPR") = "False"
       /\ store.exists /\ store.finalizer

CondTypes == {"IssueIsOpen", "IssueHasPR"}

\* A status write is made only when a status computed by the invocation
\* differs from the persisted one.
WriteOnlyOnChange ==
    (InFlight \/ Done) /\ Count("status") > 0
    => /\ \E t \in CondTypes : StatusOf(issueObject.conds, t) # StatusOf(pre.conds, t)
       /\ pc = "status" => store.conds = pre.conds

\* C7 as stated: a status write is made only on a change, and in a sequence
\* of successful invocations with no change of the repository or the
\* declared spec only the first makes a status write.
C7_OnlyFirstWrites ==
    /\ WriteOnlyOnChange
    /\ \A i \in 2..Len(run) : run[i] = "none"

\* C7, amended: a status write is made only on a change, and in a sequence of
\* successful invocations with no change of the repository or the declared
\* spec no invocation after one whose status write was persisted makes a
\* status write.
C7_NoWriteAfterPersisted ==
    /\ WriteOnlyOnChange
    /\ \A i, j \in 1..Len(run) : (i < j /\ run[i] = "written") => run[j] = "none"

C7_Witness ==
    /\ Done
    /\ Len(run) >= 2
    /\ run[1] = "written"
    /\ run[2] = "none"
    /\ Made("timeline", TRUE)

\* C8: the matcher returns the first fetched issue whose whole title equals
\* the declared title up to letter case, and nothing when there is none; a
\* title that only contains the declared title is never matched.
C8_FirstExactMatch ==
    Fetched
    => /\ Matching = {} => gitHubIssue = NoIssue
       /\ Matching # {} => gitHubIssue = FirstMatching
       /\ \A i \in 1..Len(allIssues) :
             (issueObject.title = Bug /\ allIssues[i].title = BugReport)
             => gitHubIssue # i
       /\ \A i \in 1..Len(allIssues) :
             ( /\ issueObject.title = Bug
               /\ allIssues[i].title = bugLower
               /\ \A j \in 1..(i - 1) : allIssues[j].title = BugReport )
             => gitHubIssue = i

C8_Witness ==
    /\ Fetched
    /\ Len(allIssues) = 2
    /\ allIssues[1].title = BugReport
    /\ gitHubIssue = 2

\* C9: whenever the invocation has made a create call, the finalizer was
\* persisted before it, so the resource in the store carries the finalizer
\* from the create call on, also when the process dies afterwards; and when
\* persisting the finalizer fails the invocation returns an error and makes
\* no create and no edit call.
C9_FinalizerBeforeCreate ==
    /\ Count("create") > 0
       => /\ store.exists /\ store.finalizer
          /\ Count("addfinalizer") = 0 => pre.finalizer
          /\ Count("addfinalizer") > 0
             => calls[At("addfinalizer")].ok /\ At("addfinalizer") < At("create")
    /\ Made("addfinalizer", FALSE)
       => /\ Count("create") = 0
          /\ Count("edit") = 0
          /\ Done => result = "err"

C9_Witness ==
    /\ pc = "idle"
    /\ Made("addfinalizer", TRUE)
    /\ Made("create", TRUE)
    /\ store.exists /\ store.finalizer

\* C10: when the resource is not being deleted and the matched issue is open
\* with no pull-request link, the invocation makes no create call, and when
\* its calls succeed and the timeline holds no link event the persisted
\* conditions are then IssueIsOpen=True and IssueHasPR=False.
C10_PresentOpenWithoutPR ==
    ( /\ Done /\ Fetched /\ ~issueObject.deleting /\ Matching # {}
      /\ allIssues[FirstMatching].state = "open"
      /\ ~allIssues[FirstMatching].pr )
    => /\ Count("create") = 0
       /\ (AllOk /\ \A i \in 1..Len(tl) : tl[i] = "other")
          => /\ Persisted("IssueIsOpen") = "True"
             /\ Persisted("IssueHasPR") = "False"

C10_Witness ==
    /\ Done /\ Fetched /\ ~issueObject.deleting /\ Matching # {}
    /\ allIssues[FirstMatching].state = "open"
    /\ ~allIssues[FirstMatching].pr
    /\ AllOk
    /\ tl = <<"other">>
    /\ Made("status", TRUE)
    /\ Persisted("IssueHasPR") = "False"

\* Link events of a timeline, and the position of the newest of them.
LinkEvents == {"connected", "cross-referenced", "disconnected"}

NewestLink(t) ==
    IF \E i \in 1..Len(t) : t[i] \in LinkEvents
    THEN CHOOSE i \in 1..Len(t) :
            /\ t[i] \in LinkEvents
            /\ \A j \in (i + 1)..Len(t) : t[j] \notin LinkEvents
    ELSE 0

\* The invocation took the branch of a matched issue on a resource that is
\* not being deleted, and every call of it succeeded.
PresentAllOk ==
    /\ Done /\ Fetched /\ ~issueObject.deleting /\ Matching # {}
    /\ AllOk
    /\ Made("timeline", TRUE)

\* C11: after an invocation on a matched issue whose calls all succeed, the
\* persisted IssueHasPR is True when the matched issue carries a direct
\* pull-request link; otherwise it is True when the newest link event of the
\* timeline is connected or cross-referenced, and False when that event is
\* disconnected or the timeline has no link event.
C11_HasPRProjection ==
    PresentAllOk
    => Persisted("IssueHasPR") =
          IF allIssues[FirstMatching].pr THEN "True"
          ELSE IF NewestLink(tl) = 0 THEN "False"
          ELSE IF tl[NewestLink(tl)] = "disconnected" THEN "False"
          ELSE "True"

\* C12: after an invocation on a matched issue whose calls all succeed, the
\* persisted IssueIsOpen is True when the state of the matched issue is open
\* and False for every other state.
C12_IsOpenFollowsState ==
    PresentAllOk
    => Persisted("IssueIsOpen") =
          IF allIssues[FirstMatching].state = "open" THEN "True" ELSE "False"

\* Calls that write the resource to the store.
StoreWrites == {"addfinalizer", "delfinalizer", "status", "statusfallback"}

NoStoreWrite == \A i \in 1..Len(calls) : calls[i].op \notin StoreWrites

\* C13: an invocation on a resource that is being deleted and no longer
\* carries the finalizer, and whose calls all succeed, returns no error,
\* makes no store write and leaves the issues of the repository as they were
\* fetched.
C13_NoOpWithoutFinalizer ==
    (Done /\ Fetched /\ pre.deleting /\ ~pre.finalizer /\ AllOk)
    => /\ result = "ok"
       /\ NoStoreWrite
       /\ remote = allIssues

\* Calls that change an issue of the repository.
Mutating == {"create", "edit", "close"}

\* C14: an invocation makes at most one call that changes an issue of the
\* repository: one create, one edit of the body or one close, never two.
C14_AtMostOneMutation ==
    Cardinality({i \in 1..Len(calls) : calls[i].op \in Mutating}) <= 1

C14_Witness ==
    /\ Done /\ Fetched /\ AllOk
    /\ result = "ok"
    /\ Made("addfinalizer", TRUE)
    /\ Count("edit") = 1
    /\ Made("timeline", TRUE)
    /\ Made("status", TRUE)

\* The resource carries the finalizer as its only one and is being deleted,
\* and the repository holds the issue made for it.
AwaitsFinalization ==
    /\ store.exists /\ store.deleting
    /\ store.finalizer /\ ~store.foreign
    /\ searchForIssue(store.title, remote) # NoIssue

RemovedAndClosed ==
    /\ ~store.exists
    /\ searchForIssue(store.title, remote) # NoIssue
    /\ remote[searchForIssue(store.title, remote)].state = "closed"

\* C15: when the scheduler keeps invoking Reconcile and the calls succeed in
\* the end, a resource that carries the finalizer, has its issue in the
\* repository and is marked for deletion is eventually removed from the
\* store, and its issue is closed by then.
C15_EventuallyRemoved == AwaitsFinalization ~> RemovedAndClosed

C15_Witness ==
    /\ Done
    /\ result = "ok"
    /\ pre.deleting /\ pre.finalizer /\ ~pre.foreign
    /\ Made("close", TRUE)
    /\ Made("delfinalizer", TRUE)
    /\ RemovedAndClosed

\* The invocation matched an issue on a resource that is not being deleted
\* and got past the finalizer.
ReachedEdit ==
    /\ Done /\ Fetched /\ ~issueObject.deleting /\ Matching # {}
    /\ ~Made("addfinalizer", FALSE)

C17_TimelineFailureSwallowed ==
    (Done /\ Made("timeline", FALSE))
    => /\ Made("edit", TRUE)
       /\ result = "ok"
       /\ Count("status") = 0
       /\ Count("statusfallback") = 0
       /\ store.conds = pre.conds

\* The persisted IssueHasPR stays True although the timeline that could not
\* be fetched says otherwise.
C17_Witness ==
    /\ Done /\ Made("timeline", FALSE)
    /\ result = "ok"
    /\ Persisted("IssueHasPR") = "True"
    /\ searchForPR(remote[ByNumber(MatchedNumber)].tl) = "False"

\* C18: when the close call fails, the invocation returns an error and makes
\* no store write; the finalizer that the resource carries stays on it, the
\* resource stays in the store, and the issue is as it was fetched.
C18_CloseFailure ==
    (Done /\ Made("close", FALSE))
    => /\ result = "err"
       /\ NoStoreWrite
       /\ pre.finalizer => store.exists /\ store.finalizer
       /\ remote = allIssues

C18_Witness ==
    /\ Done /\ Made("close", FALSE)
    /\ result = "err"
    /\ pre.deleting /\ pre.finalizer
    /\ store.exists /\ store.deleting /\ store.finalizer
    /\ remote[ByNumber(MatchedNumber)].state = "open"

\* C19: when the repository URL of the resource names no owner and
\* repository, the invocation returns an error after reading the resource:
\* it makes no call to the issue tracker and no store write, so finalizer
\* and conditions stay as they were.
C19_InvalidRepoURL ==
    (Done /\ issueObject.exists /\ issueObject.repo = "http://example.com")
    => /\ result = "err"
       /\ calls = <<Plain("get", TRUE)>>
       /\ store.finalizer = pre.finalizer
       /\ store.conds = pre.conds

C19_Witness ==
    /\ Done /\ issueObject.exists /\ issueObject.repo = "http://example.com"
    /\ result = "err"
    /\ Len(remote) > 0
    /\ store.exists /\ ~store.finalizer

NotFound == Done /\ Made("get", TRUE) /\ ~issueObject.exists

\* C21: when the resource is not found in the store, the invocation returns
\* success after the read: it makes no call to the issue tracker and no store
\* write.
C21_NotFoundNoOp ==
    NotFound
    => /\ result = "ok"
       /\ calls = <<Plain("get", TRUE)>>
       /\ ~store.exists

\* The user deleted the resource, the store destroyed it, and the invocation
\* that follows finds nothing while the repository holds issues.
C21_Witness ==
    /\ NotFound
    /\ result = "ok"
    /\ store.deleting /\ ~store.exists
    /\ Len(remote) > 0

\* The invocation is past AddFinalizer, past DeleteFinalizer.
PastAdd == Fetched /\ ~pre.deleting /\ pc # "addfinalizer"

PastRemove == (InFlight \/ Done) /\ Made("close", TRUE) /\ pc # "delfinalizer"

\* C22: adding the finalizer to a resource that carries it, and removing it
\* from one that does not, make no store update and succeed; adding it to
\* a resource without it and removing it from one with it make exactly one
\* store update; and when that update fails the invocation returns an error
\* and the marker in the store is as before.
C22_FinalizerIdempotent ==
    /\ PastAdd
       => /\ Count("addfinalizer") = (IF pre.finalizer THEN 0 ELSE 1)
          /\ Made("addfinalizer", TRUE) => issueObject.finalizer
          /\ (pre.finalizer /\ Done /\ AllOk) => result = "ok"
    /\ PastRemove
       => /\ Count("delfinalizer") = (IF pre.finalizer THEN 1 ELSE 0)
          /\ Made("delfinalizer", TRUE) => ~issueObject.finalizer
          /\ (~pre.finalizer /\ Done) => result = "ok"
    /\ \A op \in {"addfinalizer", "delfinalizer"} :
          (Done /\ Made(op, FALSE))
          => /\ result = "err"
             /\ store.finalizer = pre.finalizer

\* Removal from a resource that lacks the marker: success without an update.
C22_Witness ==
    /\ PastRemove /\ Done
    /\ pre.deleting /\ ~pre.finalizer
    /\ Count("delfinalizer") = 0
    /\ result = "ok"

\* lastTransitionTime of the condition of the type, 0 when there is none.
LttOf(conds, type) ==
    IF CondIndex(conds, type) = 0 THEN 0 ELSE conds[CondIndex(conds, type)].ltt

OnePerType(conds) ==
    \A i, j \in 1..Len(conds) : conds[i].type = conds[j].type => i = j

\* The time of the condition moved against the set before only together
\* with its status.
LttFollowsStatus(conds, before) ==
    \A t \in CondTypes :
        LttOf(conds, t) # LttOf(before, t) => StatusOf(conds, t) # StatusOf(before, t)

\* C23: a condition set holds at most one condition of a type, and in an
\* invocation the lastTransitionTime of a condition changes only when its
\* status changes, in the object the invocation works on and in the store.
C23_ConditionsKeyedAndTimed ==
    /\ OnePerType(store.conds)
    /\ OnePerType(issueObject.conds)
    /\ ((InFlight \/ Done) /\ issueObject.exists)
       => /\ LttFollowsStatus(issueObject.conds, pre.conds)
          /\ LttFollowsStatus(store.conds, pre.conds)

\* The second invocation changes IssueHasPR and projects an equal
\* IssueIsOpen, whose time stays that of the first.
C23_Witness ==
    /\ Done /\ Made("status", TRUE)
    /\ StatusOf(pre.conds, "IssueHasPR") = "False"
    /\ Persisted("IssueHasPR") = "True"
    /\ LttOf(store.conds, "IssueHasPR") = 2
    /\ StatusOf(pre.conds, "IssueIsOpen") = "True"
    /\ LttOf(store.conds, "IssueIsOpen") = 1

\* C24: an invocation that read a resource that is being deleted makes no
\* create call, no edit of a body, no timeline fetch, does not add the
\* finalizer and writes no status; it makes at most one close call and at
\* most one removal of the finalizer, and the persisted conditions stay.
C24_DeletingFrame ==
    ((InFlight \/ Done) /\ issueObject.exists /\ pre.deleting)
    => /\ \A i \in 1..Len(calls) :
             calls[i].op \in {"get", "list", "close", "delfinalizer"}
       /\ Count("close") <= 1
       /\ Count("delfinalizer") <= 1
       /\ store.conds = pre.conds

\* The deleting invocation closes the issue and removes the finalizer where
\* an invocation without deletion would edit the body and write the status.
C24_Witness ==
    /\ Done /\ Fetched /\ pre.deleting
    /\ Made("close", TRUE)
    /\ Made("delfinalizer", TRUE)
    /\ pre.conds = <<>>
    /\ allIssues[FirstMatching].body # issueObject.desc
    /\ remote[ByNumber(MatchedNumber)].body # issueObject.desc

\* Positions of the issues that create calls of the reconciler made.
ReconcilerCreated == {i \in 1..Len(remote) : remote[i].by = "reconciler"}

\* C25: over all invocations for the resource, whose title does not change
\* and whose fetched lists hold every issue of the repository, at most one
\* create call succeeds: the repository never holds two issues made by the
\* reconciler, the one it made has the declared title, and an invocation
\* that fetched the list while that issue exists does not get to the create
\* call.
C25_AtMostOneCreate ==
    /\ Cardinality(ReconcilerCreated) <= 1
    /\ \A i \in ReconcilerCreated : SameTitle(remote[i].title, store.title)
    /\ (ReconcilerCreated # {} /\ InFlight /\ Fetched) => pc # "create"

\* The second invocation finds the issue that the first one created and
\* edits it.
C25_Witness ==
    /\ Done /\ Fetched
    /\ inv = 2
    /\ gitHubIssue \in ReconcilerCreated
    /\ Made("edit", TRUE)
    /\ Count("create") = 0

====
